---- MODULE Spec2Model ----
(***************************************************************************)
(* Model of src/workout.jsx: the schedule builder (buildSchedule), the     *)
(* run-state controller of App (startRun / next / prev / Exit, routine     *)
(* selection, round edits, persisted state) and the countdown timer        *)
(* (useCountdown / BigTimer).                                              *)
(*                                                                         *)
(* Conventions                                                             *)
(*  - Array indices are kept 0-based as in the source (bi, ei, idx,        *)
(*    currentIndex); a TLA+ sequence s holds element i at s[i + 1].        *)
(*  - `undefined` / `null` is the empty sequence <<>>, a defined value v   *)
(*    is <<v>> where an expression may be either.                          *)
(*  - Block.rounds is a JavaScript number and may be fractional (the       *)
(*    rounds input accepts "2.5"), so it is kept in fixed point: the       *)
(*    number x is the integer x * Den.  Every other number of the          *)
(*    program that the model holds is an integer.                          *)
(*  - One action is one event handler (or one animation-frame callback)    *)
(*    together with the renders and effects it causes, up to quiescence.   *)
(***************************************************************************)
EXTENDS Integers, Sequences, FiniteSets, TLC

VARIABLES
    library,        \* useLocalStorage("workout_library_v2")
    currentIndex,   \* useLocalStorage("workout_current_index")
    mode,           \* useLocalStorage("mode"): "PLAN" | "RUN"
    schedule,       \* useState<Step[]>([])
    idx,            \* useState(0)
    running,        \* useState(false)
    timerDone,      \* useState(false)
    seed,           \* useState(0), the key of BigTimer, kept modulo 2: a key is
                    \* only compared with the key of the previous render
    remaining,      \* useCountdown's state of the mounted BigTimer (0 when none)
    rafRef,         \* useCountdown's rafRef.current: <<>> or <<callback>>
    pending,        \* the browser's set of requested animation-frame callbacks
    localStorage,   \* window.localStorage, the three keys the program writes
    edits,          \* number of round edits made so far (bounded by MaxEdits)
    blocksArg,      \* argument of a direct call of buildSchedule
    steps,          \* result of that call
    called          \* whether the call has been made

appVars == <<library, currentIndex, mode, schedule, idx, running, timerDone,
             seed, remaining, rafRef, pending, localStorage, edits>>
callVars == <<blocksArg, steps, called>>
vars == <<library, currentIndex, mode, schedule, idx, running, timerDone,
          seed, remaining, rafRef, pending, localStorage, edits,
          blocksArg, steps, called>>

-----------------------------------------------------------------------------
(* Bounds of the model *)

\* most round edits in one behaviour
MaxEdits == 1
\* longest block list / exercise list handed to buildSchedule directly
MaxBlocks == 2
MaxExercises == 2
\* milliseconds between two animation frames
FrameMs == 15000

-----------------------------------------------------------------------------
(* JavaScript numbers and coercions *)

\* denominator of the fixed-point representation of Block.rounds
Den == 2

Num(n) == n * Den

MathMax(a, b) == IF a >= b THEN a ELSE b

\* Number(e.target.value) for the strings typed into the rounds input:
\* <<>> is NaN, <<x>> the number x (fixed point).
NumberOf(s) ==
    CASE s = ""    -> <<Num(0)>>
      [] s = "0"   -> <<Num(0)>>
      [] s = "-5"  -> <<Num(0 - 5)>>
      [] s = "abc" -> <<>>
      [] s = "2.5" -> <<Num(2) + 1>>

\* x || d on a number: NaN and 0 are falsy
OrElse(x, d) == IF x = <<>> \/ x = <<0>> THEN d ELSE x[1]

\* toMs, for the integer durations of the library
toMs(sec) == MathMax(0, OrElse(<<sec>>, 0) * 1000)

-----------------------------------------------------------------------------
(* Data *)

\* Exercise and Block; `instructions` is display text only and is left out
Ex(description, duration, unit) ==
    [description |-> description, duration |-> duration, unit |-> unit]

Blk(name, rounds, exercises) ==
    [name |-> name, rounds |-> Num(rounds), exercises |-> exercises]

INITIAL_LIBRARY == <<
  [title |-> "Arm & Ab Workout",
   categories |-> <<
     Blk("Warm-Up", 1, <<Ex("Arm Circles", 30, "seconds"),
                         Ex("Cat-Cow", 6, "reps"),
                         Ex("Torso Twists", 20, "reps")>>),
     Blk("Core (Mat)", 3, <<Ex("Plank Hold", 45, "seconds"),
                            Ex("Bicycle Crunches", 20, "reps"),
                            Ex("Russian Twists", 20, "reps")>>),
     Blk("Upper Body (Weights)", 3, <<Ex("Dumbbell Curl to Press", 12, "reps"),
                                      Ex("Bench Dips", 12, "reps"),
                                      Ex("Hammer Curls", 12, "reps")>>),
     Blk("Cooldown", 1, <<Ex("Seated Forward Fold", 45, "seconds"),
                          Ex("Cross-Body Shoulder", 30, "seconds"),
                          Ex("Child's Pose", 45, "seconds")>>) >>],
  [title |-> "Leg & Glute Workout",
   categories |-> <<
     Blk("Warm-Up", 1, <<Ex("Bodyweight Squats", 12, "reps"),
                         Ex("Hip Circles", 30, "seconds"),
                         Ex("Leg Swings", 10, "reps")>>),
     Blk("Glute Activation (Mat)", 3, <<Ex("Glute Bridge", 15, "reps"),
                                        Ex("Clamshells", 15, "reps"),
                                        Ex("Side Plank Hip Lifts", 12, "reps")>>),
     Blk("Leg Strength (Weights)", 3, <<Ex("Bulgarian Split Squat", 12, "reps"),
                                        Ex("Step Ups", 12, "reps"),
                                        Ex("Romanian Deadlift", 12, "reps"),
                                        Ex("Squat Jumps", 15, "reps")>>),
     Blk("Cooldown", 1, <<Ex("Standing Quad", 30, "seconds"),
                          Ex("Figure-4", 30, "seconds"),
                          Ex("Seated Hamstring", 45, "seconds")>>) >>] >>

-----------------------------------------------------------------------------
(* Scheduler *)

\* (blk.exercises||[]).forEach((_, ei) => steps.push({ bi, ri: r, ei }))
RoundSteps(blk, bi, r) ==
    [k \in 1..Len(blk.exercises) |-> [bi |-> bi, ri |-> r, ei |-> k - 1]]

\* const rounds = Math.max(1, Number(blk.rounds || 1))
RoundsOf(blk) == MathMax(Num(1), OrElse(<<blk.rounds>>, Num(1)))

\* for (let r = 1; r <= rounds; r++) ..., from round r on
RECURSIVE RoundLoop(_, _, _, _)
RoundLoop(blk, bi, r, rounds) ==
    IF Num(r) <= rounds
    THEN RoundSteps(blk, bi, r) \o RoundLoop(blk, bi, r + 1, rounds)
    ELSE <<>>

\* the two loops of buildSchedule the wrong way round: every round of the
\* first exercise, then every round of the second, ...
BlockSteps_ExerciseMajor(blk, bi) ==
    LET rs == RoundLoop([blk EXCEPT !.exercises = <<0>>], bi, 1, RoundsOf(blk))
        n  == Len(rs)
    IN  [k \in 1..(n * Len(blk.exercises)) |->
            [bi |-> bi, ri |-> rs[((k - 1) % n) + 1].ri, ei |-> (k - 1) \div n]]

BlockSteps(blk, bi) == RoundLoop(blk, bi, 1, RoundsOf(blk))

\* (blocks||[]).forEach((blk, bi) => ...), from block bi on
RECURSIVE BlockLoop(_, _)
BlockLoop(blocks_, bi) ==
    IF bi < Len(blocks_)
    THEN BlockSteps(blocks_[bi + 1], bi) \o BlockLoop(blocks_, bi + 1)
    ELSE <<>>

buildSchedule(blocks_) == BlockLoop(blocks_, 0)

-----------------------------------------------------------------------------
(* App: values derived on every render *)

\* const workout = library[currentIndex] || INITIAL_LIBRARY[0]
workoutOf(lib, ci) ==
    IF ci + 1 \in DOMAIN lib THEN lib[ci + 1] ELSE INITIAL_LIBRARY[1]

\* const blocks = workout.categories || []
blocksOf(lib, ci) == workoutOf(lib, ci).categories

\* const cur = schedule[idx]
curOf(sch, i) == IF i + 1 \in DOMAIN sch THEN <<sch[i + 1]>> ELSE <<>>

\* const currentBlock = cur ? blocks[cur.bi] : undefined
currentBlockOf(lib, ci, sch, i) ==
    LET c == curOf(sch, i)
        b == blocksOf(lib, ci)
    IN  IF Len(c) > 0 /\ c[1].bi + 1 \in DOMAIN b THEN <<b[c[1].bi + 1]>> ELSE <<>>

\* const current = cur && currentBlock ? currentBlock.exercises?.[cur.ei] : undefined
currentOf(lib, ci, sch, i) ==
    LET c  == curOf(sch, i)
        cb == currentBlockOf(lib, ci, sch, i)
    IN  IF Len(c) > 0 /\ Len(cb) > 0 /\ c[1].ei + 1 \in DOMAIN cb[1].exercises
        THEN <<cb[1].exercises[c[1].ei + 1]>>
        ELSE <<>>

workout      == workoutOf(library, currentIndex)
blocks       == blocksOf(library, currentIndex)
cur          == curOf(schedule, idx)
currentBlock == currentBlockOf(library, currentIndex, schedule, idx)
current      == currentOf(library, currentIndex, schedule, idx)

\* the dependency list [idx, current?.unit, current?.duration] of the reset
\* effect, for the index i and the exercise c (<<>> when undefined)
depsOf(i, c) ==
    <<i,
      IF Len(c) > 0 THEN <<c[1].unit>> ELSE <<>>,
      IF Len(c) > 0 THEN <<c[1].duration>> ELSE <<>> >>

\* mode === 'RUN' && current && current.unit === 'seconds': BigTimer is rendered
bigTimerOf(m, c) == m = "RUN" /\ Len(c) > 0 /\ c[1].unit = "seconds"

\* mode === 'RUN' && current: the step card with Prev / Exit / Next is rendered
stepCard == mode = "RUN" /\ Len(current) > 0

\* the props and key of BigTimer in one render (on: whether it is rendered)
timerProps(m, c, key, run) ==
    [on |-> bigTimerOf(m, c),
     key |-> key,
     ms |-> IF bigTimerOf(m, c) THEN toMs(c[1].duration) ELSE 0,
     running |-> run]

bigTimer == bigTimerOf(mode, current)
ms == timerProps(mode, current, seed, running).ms

-----------------------------------------------------------------------------
(* useCountdown *)

\* cancelAnimationFrame(rafRef.current), guarded by if (rafRef.current)
CancelAnimationFrame(pend, ref) == IF Len(ref) > 0 THEN pend \ {ref[1]} ELSE pend

\* the cleanup the running effect returns
EffectCleanup_NoCancel(pend, ref) == pend

EffectCleanup(pend, ref) == CancelAnimationFrame(pend, ref)

\* rafRef.current = requestAnimationFrame(loop), with start = performance.now()
NewLoop(p) == [key |-> p.key, ms |-> p.ms, elapsed |-> 0]

\* One commit of BigTimer: from the props prev of the last render to the props
\* nxt of this one.  Yields rafRef.current, the pending callbacks and remaining.
CommitTimer(prev, nxt, ref, pend, rem) ==
    IF prev.on /\ nxt.on /\ prev.key = nxt.key
    THEN \* the same instance re-renders
         LET rem1 == IF nxt.ms # prev.ms THEN nxt.ms ELSE rem
         IN  IF <<nxt.ms, nxt.running>> = <<prev.ms, prev.running>>
             THEN [ref |-> ref, pend |-> pend, rem |-> rem1]
             ELSE LET p1 == IF prev.running THEN EffectCleanup(pend, ref) ELSE pend
                  IN  IF nxt.running
                      THEN [ref |-> <<NewLoop(nxt)>>,
                            pend |-> p1 \cup {NewLoop(nxt)}, rem |-> rem1]
                      ELSE [ref |-> ref,
                            pend |-> CancelAnimationFrame(p1, ref), rem |-> rem1]
    ELSE \* the old instance (if any) unmounts, a new one (if any) mounts
         LET p1 == IF prev.on /\ prev.running THEN EffectCleanup(pend, ref) ELSE pend
         IN  IF nxt.on /\ nxt.running
             THEN [ref |-> <<NewLoop(nxt)>>, pend |-> p1 \cup {NewLoop(nxt)},
                   rem |-> nxt.ms]
             ELSE [ref |-> <<>>, pend |-> p1, rem |-> IF nxt.on THEN nxt.ms ELSE 0]

-----------------------------------------------------------------------------
(* App: one commit *)

\* useLocalStorage's effect: each key is written with its state
Stored(lib, ci, m) ==
    [workout_library_v2 |-> lib, workout_current_index |-> ci, mode |-> m]

\* The renders and effects after an event handler has set library,
\* currentIndex, mode, schedule, idx and running to lib, ci, m, sch, i, run.
\* Render A shows the new state; if the reset effect's dependencies changed
\* it sets running and timerDone to false and increments seed, and render B
\* remounts BigTimer under the new key.  BigTimer's own effect calls
\* onComplete after every render of App in which remaining is 0; in render A
\* the reset effect runs after it and overrides it.
Commit(lib, ci, m, sch, i, run) ==
    \E lib1 \in {lib}, sch1 \in {sch}, c0 \in {current} :
    \E c1 \in {currentOf(lib1, ci, sch1, i)} :
    \E changed \in {depsOf(i, c1) # depsOf(idx, c0)} :
    \E seed1 \in {IF changed THEN (seed + 1) % 2 ELSE seed},
       run1 \in {IF changed THEN FALSE ELSE run},
       p0 \in {timerProps(mode, c0, seed, running)},
       pA \in {timerProps(m, c1, seed, run)} :
    \E pB \in {timerProps(m, c1, seed1, run1)},
       tA \in {CommitTimer(p0, pA, rafRef, pending, remaining)} :
    \E tB \in {IF changed THEN CommitTimer(pA, pB, tA.ref, tA.pend, tA.rem) ELSE tA},
       doneA \in {IF changed THEN FALSE
                  ELSE IF pA.on /\ tA.rem = 0 THEN TRUE ELSE timerDone} :
        /\ library' = lib1
        /\ currentIndex' = ci
        /\ mode' = m
        /\ schedule' = sch1
        /\ idx' = i
        /\ running' = run1
        /\ seed' = seed1
        /\ remaining' = tB.rem
        /\ rafRef' = tB.ref
        /\ pending' = tB.pend
        /\ timerDone' = IF pB.on /\ tB.rem = 0 THEN TRUE ELSE doneA
        /\ localStorage' = Stored(lib1, ci, m)

-----------------------------------------------------------------------------
(* App: event handlers *)

\* startRun without setIdx(0)
startRun_NoSetIdx ==
    /\ mode = "PLAN"
    /\ Commit(library, currentIndex, "RUN", buildSchedule(blocks), idx, running)
    /\ UNCHANGED <<edits, blocksArg, steps, called>>

\* const startRun = () => { setSchedule(buildSchedule(blocks)); setIdx(0); setMode('RUN'); }
startRun ==
    /\ mode = "PLAN"
    /\ Commit(library, currentIndex, "RUN", buildSchedule(blocks), 0, running)
    /\ UNCHANGED <<edits, blocksArg, steps, called>>

\* const next = () => { if (idx + 1 < schedule.length) setIdx(idx + 1); else setMode('PLAN'); }
next ==
    /\ stepCard
    /\ IF idx + 1 < Len(schedule)
       THEN Commit(library, currentIndex, mode, schedule, idx + 1, running)
       ELSE Commit(library, currentIndex, "PLAN", schedule, idx, running)
    /\ UNCHANGED <<edits, blocksArg, steps, called>>

\* const prev = () => { if (idx > 0) setIdx(idx - 1); }
prev ==
    /\ stepCard
    /\ IF idx > 0
       THEN Commit(library, currentIndex, mode, schedule, idx - 1, running)
       ELSE UNCHANGED appVars
    /\ UNCHANGED <<edits, blocksArg, steps, called>>

\* Exit: onClick={() => setMode('PLAN')}
exit ==
    /\ mode = "RUN"
    /\ Commit(library, currentIndex, "PLAN", schedule, idx, running)
    /\ UNCHANGED <<edits, blocksArg, steps, called>>

\* the routine select: onChange={(e) => setCurrentIndex(Number(e.target.value))}
selectRoutine(i) ==
    /\ i # currentIndex
    /\ Commit(library, i, mode, schedule, idx, running)
    /\ UNCHANGED <<edits, blocksArg, steps, called>>

\* what can be typed into the rounds input
RoundInputs == {"", "0", "-5", "abc", "2.5"}

\* Math.max(1, Number(e.target.value)||1), without the Math.max
coerceRounds_NoMax(s) == OrElse(NumberOf(s), Num(1))

\* Math.max(1, Number(e.target.value)||1)
coerceRounds(s) == MathMax(Num(1), OrElse(NumberOf(s), Num(1)))

\* the library after the rounds input of block bi received s
editedLibrary(bi, s) ==
    [library EXCEPT ![currentIndex + 1].categories[bi + 1].rounds = coerceRounds(s)]

\* the rounds input of block bi (rendered in PLAN only): onChange
editRounds(bi, s) ==
    /\ mode = "PLAN"
    /\ edits < MaxEdits
    /\ currentIndex + 1 \in DOMAIN library
    /\ Commit(editedLibrary(bi, s), currentIndex, mode, schedule, idx, running)
    /\ edits' = edits + 1
    /\ UNCHANGED <<blocksArg, steps, called>>

\* BigTimer's button: onToggle={() => setRunning(r => !r)}
onToggle ==
    /\ bigTimer
    /\ Commit(library, currentIndex, mode, schedule, idx, ~running)
    /\ UNCHANGED <<edits, blocksArg, steps, called>>

\* The animation-frame callback cb fires FrameMs after the previous frame
\* (or after the effect that requested it).
loop(cb) ==
    LET elapsed == cb.elapsed + FrameMs
        nxt     == MathMax(0, cb.ms - elapsed)
        owner   == bigTimer /\ cb.key = seed
        again   == [cb EXCEPT !.elapsed = elapsed]
    IN  /\ remaining' = IF owner THEN nxt ELSE remaining
        /\ IF nxt > 0
           THEN /\ pending' = (pending \ {cb}) \cup {again}
                /\ rafRef' = IF owner THEN <<again>> ELSE rafRef
           ELSE /\ pending' = pending \ {cb}
                /\ rafRef' = rafRef
        \* BigTimer's effect: if (remaining===0) onComplete()
        /\ timerDone' = IF owner /\ nxt = 0 THEN TRUE ELSE timerDone
        /\ UNCHANGED <<library, currentIndex, mode, schedule, idx, running, seed,
                       localStorage, edits, blocksArg, steps, called>>

\* The state after App has mounted with the stored values li, ci, m: the
\* useState initial values, then the reset effect's first run.
Mounted(lib, ci, m) ==
    /\ library = lib
    /\ currentIndex = ci
    /\ mode = m
    /\ schedule = <<>>
    /\ idx = 0
    /\ running = FALSE
    /\ timerDone = FALSE
    /\ seed = 1
    /\ remaining = 0
    /\ rafRef = <<>>
    /\ pending = {}
    /\ localStorage = Stored(lib, ci, m)

\* the page is loaded again: every state starts from its initial value, the
\* three persisted ones from localStorage
reload ==
    /\ library' = localStorage.workout_library_v2
    /\ currentIndex' = localStorage.workout_current_index
    /\ mode' = localStorage.mode
    /\ schedule' = <<>>
    /\ idx' = 0
    /\ running' = FALSE
    /\ timerDone' = FALSE
    /\ seed' = 1
    /\ remaining' = 0
    /\ rafRef' = <<>>
    /\ pending' = {}
    /\ UNCHANGED <<localStorage, edits, blocksArg, steps, called>>

-----------------------------------------------------------------------------
(* Specification of the application *)

\* a library found in localStorage at the first load: the routine of the
\* five-step scenario, a routine whose only block has no exercise, and a
\* routine without blocks
StoredLibrary == <<
  [title |-> "Scenario",
   categories |-> << Blk("B0", 1, <<Ex("e1", 30, "seconds")>>),
                     Blk("B1", 2, <<Ex("e2", 45, "seconds"), Ex("e3", 12, "reps")>>) >>],
  [title |-> "No exercises",
   categories |-> << Blk("B0", 3, <<>>) >>],
  [title |-> "No blocks", categories |-> <<>>] >>

Init ==
    /\ \E lib \in {INITIAL_LIBRARY, StoredLibrary} : Mounted(lib, 0, "PLAN")
    /\ edits = 0
    /\ blocksArg = <<>>
    /\ steps = <<>>
    /\ called = FALSE

Next ==
    \/ startRun
    \/ next
    \/ prev
    \/ exit
    \/ \E i \in 0..(Len(library) - 1) : selectRoutine(i)
    \/ \E bi \in 0..(Len(blocks) - 1), s \in RoundInputs : editRounds(bi, s)
    \/ onToggle
    \/ \E cb \in pending : loop(cb)
    \/ reload

Spec == Init /\ [][Next]_vars

-----------------------------------------------------------------------------
(* Specification of buildSchedule called directly *)

\* sequences over S of length at most n
RECURSIVE SeqUpTo(_, _)
SeqUpTo(S, n) ==
    IF n = 0 THEN {<<>>}
    ELSE LET shorter == SeqUpTo(S, n - 1)
         IN  shorter \cup {Append(q, x) : q \in {t \in shorter : Len(t) = n - 1}, x \in S}

\* rounds of the blocks handed to buildSchedule: 0, -1, 1, 2, 2.5, 3
RoundsArgs == {Num(0), Num(0 - 1), Num(1), Num(2), Num(2) + 1, Num(3)}

BlockArgs ==
    {[name |-> "B", rounds |-> r, exercises |-> e] :
        r \in RoundsArgs, e \in SeqUpTo({Ex("X", 30, "seconds")}, MaxExercises)}

InitBuild ==
    /\ Mounted(INITIAL_LIBRARY, 0, "PLAN")
    /\ edits = 0
    /\ blocksArg \in SeqUpTo(BlockArgs, MaxBlocks)
    /\ steps = <<>>
    /\ called = FALSE

CallBuildSchedule ==
    /\ ~called
    /\ steps' = buildSchedule(blocksArg)
    /\ called' = TRUE
    /\ UNCHANGED <<appVars, blocksArg>>

NextBuild == CallBuildSchedule

SpecBuild == InitBuild /\ [][NextBuild]_vars

-----------------------------------------------------------------------------
(* The test panel's expected schedule length *)

\* blocks.reduce((sum, b) => sum + Math.max(1, Number(b.rounds||1)) * (b.exercises?.length||0), 0),
\* in fixed point like rounds
RECURSIVE total(_)
total(blocks_) ==
    IF Len(blocks_) = 0 THEN 0
    ELSE total(SubSeq(blocks_, 1, Len(blocks_) - 1))
         + MathMax(Num(1), OrElse(<<blocks_[Len(blocks_)].rounds>>, Num(1)))
           * Len(blocks_[Len(blocks_)].exercises)

-----------------------------------------------------------------------------
(* Properties *)

\* C1: for every list of blocks, the length of buildSchedule(blocks) equals
\* the sum over the blocks of max(1, rounds) * (number of exercises); the
\* empty list yields the empty schedule and a block without exercises
\* contributes no step.
C1_LengthIsSum ==
    called =>
        /\ Num(Len(steps)) = total(blocksArg)
        /\ (Len(blocksArg) = 0 => steps = <<>>)
        /\ ((\A k \in DOMAIN blocksArg : Len(blocksArg[k].exercises) = 0) => steps = <<>>)

\* (block index, round number, exercise index) in lexicographic order
StepLess(a, b) ==
    \/ a.bi < b.bi
    \/ a.bi = b.bi /\ a.ri < b.ri
    \/ a.bi = b.bi /\ a.ri = b.ri /\ a.ei < b.ei

\* every (block, round, exercise) triple of a block list: rounds are the whole
\* numbers from 1 up to max(1, rounds)
Triples(blocks_) ==
    UNION { { [bi |-> k - 1, ri |-> r, ei |-> e] :
                r \in {q \in 1..(MathMax(Den, blocks_[k].rounds) \div Den) : TRUE},
                e \in 0..(Len(blocks_[k].exercises) - 1) } : k \in DOMAIN blocks_ }

\* C2: the steps buildSchedule returns are in strictly increasing
\* lexicographic order of (block index, round number, exercise index), and
\* they are exactly the triples (block, round in 1..rounds, exercise), each
\* once.
C2_LexOrder ==
    called =>
        /\ \A k \in 1..(Len(steps) - 1) : StepLess(steps[k], steps[k + 1])
        /\ {steps[k] : k \in DOMAIN steps} = Triples(blocksArg)
        /\ Len(steps) = Cardinality(Triples(blocksArg))

\* C2 witness: a call on two blocks, the second with 3 rounds of 2 exercises
C2_Witness ==
    /\ called
    /\ Len(blocksArg) = 2
    /\ Len(blocksArg[1].exercises) = 2
    /\ blocksArg[2].rounds = Num(3)
    /\ Len(blocksArg[2].exercises) = 2
    /\ Len(steps) >= 8

\* C3: whenever mode is RUN, the length of the active schedule equals the
\* sum over the selected routine's blocks of max(1, rounds) * (number of
\* exercises).
C3_RunLengthIsTotal == mode = "RUN" => Num(Len(schedule)) = total(blocks)

\* C4: advance at the last index sets mode to PLAN and empties the schedule;
\* advance before the last index increments the index and stays in RUN.
C4_AdvanceAtLastDiscards ==
    [][/\ (next /\ idx + 1 >= Len(schedule)) => (mode' = "PLAN" /\ schedule' = <<>>)
       /\ (next /\ idx + 1 < Len(schedule)) => (mode' = "RUN" /\ idx' = idx + 1)]_vars

\* C5 as claimed: start on a routine whose schedule has no step is a no-op,
\* mode stays PLAN and the run state is unchanged.
C5_StartEmptyIsNoOp ==
    [][(startRun /\ Len(buildSchedule(blocks)) = 0)
        => (mode' = "PLAN" /\ UNCHANGED <<schedule, idx, running, timerDone, seed>>)]_vars

\* C5, amended: start on a routine whose schedule has no step enters RUN
\* with an empty schedule and index 0; no step is active, so no step card
\* and no timer is rendered and no callback is pending.
C5_StartEmptyEntersRun ==
    [][(startRun /\ Len(buildSchedule(blocks)) = 0)
        => /\ mode' = "RUN"
           /\ schedule' = <<>>
           /\ idx' = 0
           /\ Len(current') = 0
           /\ ~stepCard'
           /\ ~bigTimer'
           /\ pending' = {}]_vars

\* C5 witness: a run of a routine without steps has been started
C5_Witness ==
    /\ mode = "RUN"
    /\ schedule = <<>>
    /\ Len(buildSchedule(blocks)) = 0

\* one BigTimer instance is mounted before and after the step
sameTimer == bigTimer /\ bigTimer' /\ seed' = seed

\* C6: within one step the remaining value of a countdown under way never
\* increases (pausing and resuming continues from the value held), and while
\* running is false it holds its value.
C6_RemainingNeverIncreases ==
    [][/\ (sameTimer /\ remaining > 0) => remaining' <= remaining
       /\ (sameTimer /\ ~running /\ ~running') => remaining' = remaining]_vars

\* C7: once remaining has reached 0 the timer schedules no further update,
\* and remaining stays 0 (whatever is toggled) until a step transition.
C7_CompletedStaysZero ==
    [][/\ (sameTimer /\ remaining = 0) => remaining' = 0
       /\ (sameTimer /\ remaining > 0 /\ remaining' = 0) => pending' = {}]_vars

\* the strings the claim names: non-positive, non-numeric or empty
InvalidInputs == {"", "0", "-5", "abc"}

\* the library differs from lib0 at most in the rounds of block bi of routine ci
OnlyRoundsOf(lib0, lib1, ci, bi) ==
    /\ Len(lib1) = Len(lib0)
    /\ \A w \in DOMAIN lib0 :
        /\ lib1[w].title = lib0[w].title
        /\ Len(lib1[w].categories) = Len(lib0[w].categories)
        /\ \A b \in DOMAIN lib0[w].categories :
            /\ lib1[w].categories[b].name = lib0[w].categories[b].name
            /\ lib1[w].categories[b].exercises = lib0[w].categories[b].exercises
            /\ (w # ci + 1 \/ b # bi + 1)
                => lib1[w].categories[b].rounds = lib0[w].categories[b].rounds

\* C8: whenever the library changes, every block of the new library has
\* rounds >= 1 (the libraries the program starts from have); a round edit with a
\* non-positive, non-numeric or empty input stores exactly 1; an edit changes
\* only the rounds of the targeted block of the selected routine.  (Only a
\* round edit changes edits.)
C8_RoundsCoerced ==
    [][/\ library' # library =>
            \A w \in DOMAIN library' : \A b \in DOMAIN library'[w].categories :
                library'[w].categories[b].rounds >= Num(1)
       /\ edits' # edits =>
            \A bi \in 0..(Len(blocks) - 1), s \in RoundInputs :
                editRounds(bi, s) =>
                    /\ OnlyRoundsOf(library, library', currentIndex, bi)
                    /\ s \in InvalidInputs =>
                        library'[currentIndex + 1].categories[bi + 1].rounds = Num(1)
                    /\ s = "2.5" =>
                        library'[currentIndex + 1].categories[bi + 1].rounds = Num(2) + 1
                    /\ UNCHANGED <<currentIndex, mode, schedule, idx>>]_vars

\* C8 witness: an edit brought the 3 rounds of "Core (Mat)" down to 1
C8_Witness ==
    /\ edits > 0
    /\ library[1].title = "Arm & Ab Workout"
    /\ library[1].categories[2].rounds = Num(1)

\* C9: right after start, advance or retreat has established the active
\* step, the timer is paused, the completion flag is cleared and remaining
\* is the step's totalMs.
C9_StepChangeResetsTimer ==
    [][((startRun \/ (next /\ idx' # idx) \/ (prev /\ idx' # idx))
          /\ mode' = "RUN" /\ Len(current') > 0)
        => /\ ~running'
           /\ ~timerDone'
           /\ bigTimer' => remaining' = ms']_vars

\* C10: at most one animation-frame callback is pending, and a pending
\* callback belongs to the timer of the current step while it is running: it
\* is the one rafRef holds, requested by the mounted BigTimer for its ms.
C10_NoStaleCallback ==
    /\ Cardinality(pending) <= 1
    /\ \A cb \in pending :
        /\ bigTimer
        /\ running
        /\ cb.key = seed
        /\ cb.ms = ms
        /\ rafRef = <<cb>>

\* C10 witness: a countdown paused part-way on a later step: its callback
\* had rescheduled itself and the pause cancelled it
C10_Witness ==
    /\ bigTimer
    /\ idx > 0
    /\ ~running
    /\ remaining > 0
    /\ remaining < ms
    /\ pending = {}

====
